---- MODULE Spec2Model ----
(***************************************************************************)
(* A model of the RHEAS ensemble orchestration code: forcing gap handling  *)
(* (VIC._handleMissingData), ESP year selection (Ensemble._ESP), output    *)
(* persistence (VIC.writeToDB, VIC.saveToDB, Ensemble.save), process      *)
(* fan-out (VIC.run, Ensemble.run), the soil file and pixel lists          *)
(* (VIC.writeSoilFile, Ensemble.writeSoilFiles), the forcing files         *)
(* (VIC.getForcings, VIC.writeForcings, Ensemble._determ), the            *)
(* observation loop of runEnsembleVIC with the state files its control     *)
(* files name (Ensemble.writeParamFiles) and the rows a drought index is   *)
(* computed from (drought.calcSPI).                                        *)
(*                                                                         *)
(* Dates are day numbers.  date(year, month, day) is modelled as           *)
(* year * YearLen + dayOfYear, so "the same month and day in another       *)
(* year" is a shift by a multiple of YearLen.                              *)
(***************************************************************************)
EXTENDS Integers, Sequences, FiniteSets, TLC

----------------------------------------------------------------------------
(* Bounds of the model *)

\* number of pixels of the domain (len(self.lat))
NPixels == 2
\* last day number of the forcing calendar; days are 0..MaxDay
MaxDay == 2
\* number of tiles of the index table; a pixel is joined to any of them
MaxDup == 2
\* largest number of single (pixel, day) rows the tile read leaves out
MaxMiss == 2
\* number of distinct forcing values held by the store
NValues == 3

\* size of the ensemble (nens)
NEns == 2
\* number of days of a calendar year of the model
YearLen == 2
\* number of historical years before the year of the simulation
MaxHist == 2

\* number of layers of a layered output variable (nlayer)
MaxLayers == 2
\* largest number of tiles the loader cuts one raster image into
MaxTiles == 2
\* largest number of save calls of one behaviour
MaxSaves == 2
\* largest skipsave a save is called with
MaxSkip == 1
\* largest number of writeSoilFile calls of one behaviour
MaxSoil == 2
\* number of cells of the line the pixels of the domain lie on
MaxPos == 3

Pixels == 1..NPixels
Days == 0..MaxDay
Windows == {w \in Days \X Days : w[1] <= w[2]}

\* float('nan'), what pandas puts where a reindexed series has no value
NaN == 0

Max(S) == CHOOSE x \in S : \A y \in S : y <= x
Min(S) == CHOOSE x \in S : \A y \in S : x <= y

RECURSIVE Flatten(_)
\* concatenation of a sequence of sequences
Flatten(ss) == IF ss = <<>> THEN <<>> ELSE Head(ss) \o Flatten(Tail(ss))

\* all orderings of a finite set, as sequences without repetition
Perms(S) == {p \in [1..Cardinality(S) -> S] : \A i, j \in 1..Cardinality(S) : p[i] = p[j] => i = j}

VARIABLES
    \* ---- one VIC instance fetching forcings (vic.py)
    vic,        \* [start, end: startyear/month/day and endyear/month/day;
                \*  startdate, enddate: the datetime fields set by __init__]
    seed,       \* which content the forcing table of the store holds
    data,       \* the series handed to _handleMissingData: <<gid, fdate, value>> rows
    result,     \* the series _handleMissingData returned
    fpc,        \* "idle" | "fetched": where the instance is between the two calls
    fout,       \* "none" | "returned" | "raised": how the last call ended
    ffiles,     \* the forcings directory: per pixel [exists, rows] of its file
    \* ---- the ensemble (ensemble.py)
    ens,        \* [start, end]: Ensemble.startyear/month/day, endyear/month/day
    models,     \* per member [start, end, startdate, enddate: as in vic;
                \*  wrap: ensemble index of the installed write_wrapper, 0 if none;
                \*  out: number of rows of the member's output files]
    espYears,   \* _ESP: the candidate years the store returned, in its order
    espOK,      \* _ESP: the years whose record has the last day of the shifted window
    epc,        \* "none" | "done" | "exit": how the last _ESP ended
    ph,         \* where the driver is: "dates" | "forced" | "ran" | "saved"
    failed,     \* the members whose model process failed in the last run
    \* ---- the output table of the store (vic.py writeToDB)
    tbl,        \* [exists, hasEns: the table and its ensemble column;
                \*  rows: its rows [rid, fdate, layer, ens, w, src]]
    nlay,       \* data.shape[1]: the number of layers of the saved variable
    tiles,      \* the number of tiles the loader cuts one image into
    hist,       \* the save calls so far: [init, ok, skip, wins]; a row's w is
                \* the position in hist of the call that wrote it
    \* ---- Ensemble.run (ensemble.py) and the member processes
    procs,      \* per member, its Process: "new" (not started) | "running" | "ok" |
                \* "vicfail" | "crashed"
    rpc,        \* [at, i]: where Ensemble.run is: "idle" | "start" | "join" | "done",
                \* and the index of the process the loop is at
    runout,     \* "none" | "returned" | "raised": how the last Ensemble.run ended
    \* ---- Ensemble.save to a directory (ensemble.py, vic.py save)
    dest,       \* the destination path: [kind: "none" | "file" | "dir",
                \*  subs: the subdirectories <<name, call that wrote it>>]
    spos,       \* the member the loop of save is at, 0 outside a call
    nclear,     \* how often the call has removed and recreated the destination
    ncall,      \* the number of save calls so far
    \* ---- the observation loop of runEnsembleVIC (nowcast.py)
    sfiles,     \* per member, the state file its parameter file names: [day: the
                \*  date in its name, exists, writes: corrections written to it]
    opc,        \* where the observation loop is: "idle" | "ready" | "running" |
                \*  "ran" | "assim" | "finished" | "error" | "exit"
    widx,       \* the loop's locals: [i: index of the update date (0: spin-up),
                \*  t0: start of the next window, dates: updateDates]
    obsdata,    \* whether the data assimilate returned for the window is non-empty
    conn,       \* the store connections the driver holds open
    \* ---- the soil file and the pixel lists (vic.py writeSoilFile)
    basin,      \* the domain table of the store: [exists, line: its line column,
                \*  auto: whether the store's connections commit by themselves]
    heap,       \* the pixel containers: per object [lat: the list, gid: the keys]
    refs,       \* per member, the object its lat/lon/gid attributes are bound to
    soilout,    \* how the writeSoilFile calls ended so far: a sequence of
                \* [by: member, ok, lat: the caller's list after the call]
    \* ---- the forcing options (vic.py getForcings, ensemble.py _determ)
    opts,       \* the keys options['vic'] holds
    fexit,      \* how the last forcing retrieval ended: "none" | "fetched" |
                \*  "reported" (log.error and sys.exit) | "keyerror" (uncaught)
    nidx,       \* the index tables the last forcing retrieval created
    \* ---- the output files of the instance and their decoding (vic.py saveToDB)
    opix,       \* per pixel [pos: its cell on the grid, file: "absent" | "empty" |
                \*  "full", its output file]
    grid,       \* what saveToDB decoded: [status: "none" | "raised" | "done",
                \*  cells: per cell of the bounding box the pixel read, or NoData]
    \* ---- the second forcing variable of writeForcings (vic.py)
    tmax,       \* [data: the tmax series getForcings returned, result: the series
                \*  _handleMissingData returned for it]
    \* ---- the state files the control files name (ensemble.py, vic.py)
    dread,      \* per member the ensemble indices of the rows its drought index
                \* was computed from in the last Ensemble.save (drought.py)
    ctl         \* [statefiles: Ensemble.statefiles, per position <<member whose
                \*  directory holds the file, day of its name>>; init: per member the
                \*  INIT_STATE of its control file: owner (0: none), day, and whether
                \*  that file existed when the control file was written]

fillVars == <<vic, seed, data, result, fpc, fout, ffiles>>
ensVars == <<ens, models>>
espVars == <<espYears, espOK, epc>>
dbVars == <<tbl, nlay, tiles, hist>>
runVars == <<procs, rpc, runout>>
dirVars == <<dest, spos, nclear, ncall>>
obsVars == <<sfiles, opc, widx, obsdata, conn>>
soilVars == <<basin, heap, refs, soilout>>
optVars == <<opts, fexit, nidx>>
extVars == <<opix, grid, tmax, ctl, dread>>
auxVars == <<dirVars, obsVars, soilVars, optVars, extVars>>

vars == <<vic, seed, data, result, fpc, fout, ens, models, espYears, espOK, epc,
          ph, failed, tbl, nlay, tiles, hist, procs, rpc, runout, ffiles,
          dest, spos, nclear, ncall, sfiles, opc, widx, obsdata, conn,
          basin, heap, refs, soilout, opts, fexit, nidx, opix, grid, tmax, ctl,
          dread>>

----------------------------------------------------------------------------
(* The forcing table of the store and the tile read *)

\* value the store holds for pixel g on day d
StoreValue(g, d) == ((g + d + seed) % NValues) + 1

\* rows a tile read returns for pixel g over the window [s, e], ordered by
\* fdate, leaving out the cells in miss (st_value is NULL, or no raster)
TileRows(g, s, e, miss) ==
    LET ds == {d \in s..e : <<g, d>> \notin miss}
        RECURSIVE Build(_)
        Build(d) == IF d > e THEN <<>>
                    ELSE (IF d \in ds THEN <<(<<g, d, StoreValue(g, d)>>)>> ELSE <<>>) \o Build(d + 1)
    IN Build(s)

\* the ways the index table joins the pixels to the tiles: asg[g] holds the
\* positions, in the list _getTiles returns, of the tiles pixel g lies on
Assignments == [Pixels -> SUBSET (1..MaxDup)]

\* the concatenated tile reads: map_async(...).get() gives the readers'
\* results in the order of the tile list, whatever the order in which the
\* readers end; each tile's rows are ordered by gid, fdate
Fetched(asg, s, e, miss) ==
    Flatten([k \in 1..MaxDup |->
        Flatten([g \in Pixels |-> IF k \in asg[g] THEN TileRows(g, s, e, miss) ELSE <<>>])])

----------------------------------------------------------------------------
(* VIC._handleMissingData *)

Gids(rows) == {rows[i][1] : i \in 1..Len(rows)}
RowsOf(rows, g) == SelectSeq(rows, LAMBDA r : r[1] = g)
DatesOf(p) == {p[i][2] : i \in 1..Len(p)}
HasDuplicateDate(p) == \E i, j \in 1..Len(p) : i < j /\ p[i][2] = p[j][2]
ValueOn(p, t) == p[CHOOSE i \in 1..Len(p) : p[i][2] = t][3]

\* p.reindex(pd.date_range(startdate, enddate)).interpolate(method='pad')
\* of a series with unique dates: one entry per day of [t0, t1], holding the
\* value of the latest day of [t0, t] the series has, NaN when it has none
ReindexPad(p, g, t0, t1) ==
    [k \in 1..(t1 - t0 + 1) |->
        LET t == t0 + k - 1
            have == {d \in DatesOf(p) : t0 <= d /\ d <= t}
        IN <<g, t, IF have = {} THEN NaN ELSE ValueOn(p, Max(have))>>]

\* the whole-raster retry: for every pixel without a row, the rows the
\* nearest-value query returned (retry[g], a set of days) are appended
RetryRows(rows, npix, ndays, s, e, retry, pord) ==
    IF Len(rows) = npix * ndays THEN rows
    ELSE rows \o Flatten([i \in 1..Len(pord) |->
                    TileRows(pord[i], s, e, {<<pord[i], d>> : d \in (s..e) \ retry[pord[i]]})])

\* the per-pixel part: the series of gid, reindexed when it is short
PixelSeries(rows, g, ndays, sd, ed) ==
    LET p == RowsOf(rows, g)
    IN IF Len(p) < ndays THEN ReindexPad(p, g, sd, ed) ELSE p

\* pandas raises on reindexing a series whose index has duplicates
ReindexRaises(rows, npix, ndays) ==
    /\ Len(rows) # npix * ndays
    /\ \E g \in Gids(rows) : Len(RowsOf(rows, g)) < ndays /\ HasDuplicateDate(RowsOf(rows, g))

\* the series returned, given the rows after the retry and the order gord in
\* which the dictionary of pixels is walked
FillGaps(rows, npix, ndays, sd, ed, gord) ==
    IF Len(rows) = npix * ndays THEN rows
    ELSE Flatten([i \in 1..Len(gord) |-> PixelSeries(rows, gord[i], ndays, sd, ed)])

----------------------------------------------------------------------------
(* The forcing instance: construction, setDates, fetch, gap handling *)

\* VIC.__init__: both copies of the window are set from the arguments
InitFill ==
    /\ \E w \in Windows : vic = [start |-> w[1], end |-> w[2], startdate |-> w[1], enddate |-> w[2]]
    /\ seed \in 0..(NValues - 1)
    /\ data = <<>>
    /\ result = <<>>
    /\ fpc = "idle"
    /\ fout = "none"
    /\ ffiles = [g \in Pixels |-> [exists |-> FALSE, rows |-> <<>>]]

\* no forcing instance
NoFill ==
    /\ vic = [start |-> 0, end |-> 0, startdate |-> 0, enddate |-> 0]
    /\ seed = 0
    /\ data = <<>>
    /\ result = <<>>
    /\ fpc = "idle"
    /\ fout = "none"
    /\ ffiles = [g \in Pixels |-> [exists |-> FALSE, rows |-> <<>>]]

\* no ensemble
NoEns ==
    /\ ens = [start |-> 0, end |-> 0]
    /\ models = <<>>
    /\ espYears = <<>>
    /\ espOK = {}
    /\ epc = "none"
    /\ ph = "dates"
    /\ failed = {}

\* no output table
NoTable ==
    /\ tbl = [exists |-> FALSE, hasEns |-> FALSE, rows |-> {}]
    /\ nlay = 1
    /\ tiles = 1
    /\ hist = <<>>

\* Ensemble.run has not been called
NoRun ==
    /\ procs = [e \in 1..NEns |-> "new"]
    /\ rpc = [at |-> "idle", i |-> 0]
    /\ runout = "none"

\* no save to a directory
NoDir ==
    /\ dest = [kind |-> "none", subs |-> {}]
    /\ spos = 0
    /\ nclear = 0
    /\ ncall = 0

\* the observation loop is not entered
NoObs ==
    /\ sfiles = [e \in 1..NEns |-> [day |-> 0, exists |-> FALSE, writes |-> 0]]
    /\ opc = "idle"
    /\ widx = [i |-> 0, t0 |-> 0, dates |-> <<>>]
    /\ obsdata = FALSE
    /\ conn = 0

\* no soil file written, no domain table
NoSoil ==
    /\ basin = [exists |-> FALSE, line |-> FALSE, auto |-> FALSE]
    /\ heap = [o \in 1..NEns |-> [lat |-> <<>>, gid |-> {}]]
    /\ refs = [e \in 1..NEns |-> e]
    /\ soilout = <<>>

\* the keys options['vic'] can hold for the forcings
OptionKeys == {"precip", "temperature", "wind", "lai"}

\* the keys getForcings requires
Required == {"precip", "temperature", "wind"}

\* the number of variables getForcings creates an index table for
NVars == 4

\* options that name every forcing data source; nothing retrieved yet
NoOpts ==
    /\ opts = Required
    /\ fexit = "none"
    /\ nidx = 0

\* every pixel has a complete output file; nothing decoded; no second
\* forcing variable; no state file named
NoExt ==
    /\ opix = [g \in 1..NPixels |-> [pos |-> g, file |-> "full"]]
    /\ grid = [status |-> "none", cells |-> <<>>]
    /\ tmax = [data |-> <<>>, result |-> <<>>]
    /\ ctl = [statefiles |-> <<>>, init |-> <<>>]
    /\ dread = [e \in 1..NEns |-> {}]

NoAux == NoDir /\ NoObs /\ NoSoil /\ NoOpts /\ NoExt

\* Ensemble.setDates on the instance: only the year/month/day fields change.
\* The series of an earlier writeForcings call are locals of that call and
\* are gone by now.
SetDates(s, e) ==
    /\ fpc = "idle"
    /\ vic' = [vic EXCEPT !.start = s, !.end = e]
    /\ data' = <<>>
    /\ result' = <<>>
    /\ fout' = "none"
    /\ UNCHANGED <<seed, fpc, ffiles, ensVars, espVars, ph, failed, dbVars, runVars, auxVars>>

\* "if not ('precip' in options and 'temperature' in options and 'wind' in
\* options)"
CheckFails(o) == ~(Required \subseteq o)

\* VIC.getForcings, called once after the construction or setDates: the check
\* of the options, then the index tables and the tile reads over the current
\* window, concatenated
GetForcings ==
    /\ fpc = "idle"
    /\ fout = "none"
    /\ IF CheckFails(opts)
       THEN /\ fexit' = "reported"
            /\ nidx' = 0
            /\ data' = <<>>
            /\ fpc' = "exit"
       ELSE /\ \E asg \in Assignments :
               \E miss \in SUBSET (Pixels \X (vic.start..vic.end)) :
                  /\ Cardinality(miss) <= MaxMiss
                  /\ data' = Fetched(asg, vic.start, vic.end, miss)
            /\ fexit' = "fetched"
            /\ nidx' = NVars
            /\ fpc' = "fetched"
    /\ result' = <<>>
    /\ fout' = "none"
    /\ UNCHANGED <<vic, seed, ffiles, ensVars, espVars, ph, failed, dbVars, runVars, extVars,
                   dirVars, obsVars, soilVars, opts>>

RECURSIVE WriteFiles(_, _, _, _)
\* the loop of writeForcings from row i on, cgid the pixel of the open file:
\* a row of another pixel opens that pixel's file with mode 'w', which empties
\* it; every row is written to the open file
WriteFiles(f, rows, i, cgid) ==
    IF i > Len(rows) THEN f
    ELSE LET g == rows[i][1]
             f1 == IF g # cgid THEN [f EXCEPT ![g] = [exists |-> TRUE, rows |-> <<>>]] ELSE f
         IN WriteFiles([f1 EXCEPT ![g].rows = Append(@, <<rows[i][2], rows[i][3]>>)],
                       rows, i + 1, g)

\* VIC.writeForcings on the fetched series: _handleMissingData, then the
\* files of the forcings directory
HandleMissingData ==
    /\ fpc = "fetched"
    /\ LET ndays == vic.end - vic.start + 1
           nopix == Pixels \ Gids(data)
       IN \E retry \in [nopix -> SUBSET (vic.start..vic.end)] :
          \E pord \in Perms(nopix) :
             LET rows == RetryRows(data, NPixels, ndays, vic.start, vic.end, retry, pord)
             IN IF ReindexRaises(rows, NPixels, ndays)
                THEN /\ fout' = "raised"
                     /\ result' = <<>>
                     /\ ffiles' = ffiles
                ELSE \E gord \in Perms(Gids(rows)) :
                        /\ result' = FillGaps(rows, NPixels, ndays, vic.startdate, vic.enddate, gord)
                        /\ fout' = "returned"
                        /\ ffiles' = WriteFiles(ffiles, result', 1, 0)
    /\ fpc' = "idle"
    /\ UNCHANGED <<vic, seed, data, ensVars, espVars, ph, failed, dbVars, runVars, auxVars>>

\* the forcings directory of the instance is as mkdir left it
NoFiles == \A g \in Pixels : ~ffiles[g].exists

\* the instance's dates are set, its forcings retrieved and written; a new
\* retrieval follows only a write that raised
NextFill ==
    \/ \E w \in Windows : SetDates(w[1], w[2])
    \/ NoFiles /\ GetForcings
    \/ HandleMissingData

InitFillSpec == InitFill /\ NoEns /\ NoTable /\ NoRun /\ NoAux

SpecFill == InitFillSpec /\ [][NextFill]_vars

\* number of days of the inclusive window the instance currently has
WindowDays == vic.end - vic.start + 1

\* C1: every series _handleMissingData returns has exactly
\* (number of pixels) x (number of days of the window) entries.
C1_ReturnsPixelsTimesDays ==
    fout = "returned" => Len(result) = NPixels * WindowDays

\* the fetched series lacks exactly the row of pixel g on day d and is
\* otherwise the complete series of the window
OnlyMissing(g, d) ==
    /\ d \in vic.start..vic.end
    /\ Len(data) = NPixels * WindowDays - 1
    /\ \A h \in Pixels : \A t \in vic.start..vic.end :
          Cardinality({i \in 1..Len(data) : data[i][1] = h /\ data[i][2] = t})
             = (IF h = g /\ t = d THEN 0 ELSE 1)

Entries(rows) == {rows[i] : i \in 1..Len(rows)}

\* C2: when exactly one day of one pixel is missing (a day that has a
\* preceding day in the window), the returned series is complete, the
\* missing day carries the pixel's value of the preceding day and every
\* other entry is the fetched one.
C2_OneMissingDayForwardFilled ==
    \A g \in Pixels : \A d \in Days :
        (fout = "returned" /\ OnlyMissing(g, d) /\ d > vic.start) =>
            /\ Len(result) = NPixels * WindowDays
            /\ Entries(result) = Entries(data) \cup {<<g, d, StoreValue(g, d - 1)>>}

\* the rows a complete file of pixel g holds: one per day of the window, in
\* chronological order
DailyRows(g) == [k \in 1..WindowDays |-> vic.start + k - 1]

\* the dates of the rows of a file
FileDates(f) == [k \in 1..Len(f.rows) |-> f.rows[k][1]]

\* C19: after writeForcings the forcings directory holds a file for every
\* pixel of the domain, each with one row per day of the window in
\* chronological order.
C19_OneFilePerPixelOneRowPerDay ==
    fout = "returned" =>
        \A g \in Pixels : ffiles[g].exists /\ FileDates(ffiles[g]) = DailyRows(g)

\* row r comes before or with row q in the order by (pixel, date)
RowLeq(r, q) == r[1] < q[1] \/ (r[1] = q[1] /\ r[2] <= q[2])

\* C20: the series the retrieval returns is ordered by (pixel, date),
\* whatever tiles the pixels lie on.
C20_OrderedByPixelAndDate ==
    fout = "returned" =>
        \A i, j \in 1..Len(result) : i < j => RowLeq(result[i], result[j])

----------------------------------------------------------------------------
(* The ensemble: construction, setDates, ESP year selection *)

\* the year of the simulation; the years before it are the historical ones
PresentYear == MaxHist
Years == 0..MaxHist
\* the years of a store that holds the present year and the one before it
RecentYears == (PresentYear - 1)..PresentYear
\* date(year, month, day) of the month and day of date d
DateIn(year, d) == year * YearLen + (d % YearLen)
YearOf(d) == d \div YearLen
PresentDays == (PresentYear * YearLen)..(PresentYear * YearLen + YearLen - 1)
EnsWindows == {w \in PresentDays \X PresentDays : w[1] <= w[2]}
Members == 1..NEns

\* VIC.__init__ of one member
NewModel(s, e) ==
    [start |-> s, end |-> e, startdate |-> s, enddate |-> e, wrap |-> 0, out |-> 0]

\* Ensemble.__init__
InitEns ==
    /\ \E w \in EnsWindows :
          /\ ens = [start |-> w[1], end |-> w[2]]
          /\ models = [m \in Members |-> NewModel(w[1], w[2])]
    /\ espYears = <<>>
    /\ espOK = {}
    /\ epc = "none"
    /\ ph = "dates"
    /\ failed = {}

\* list.remove(v): the list without the first element equal to v
RemoveFirst(ys, v) ==
    LET i == Min({j \in 1..Len(ys) : ys[j] = v})
    IN [j \in 1..(Len(ys) - 1) |-> IF j < i THEN ys[j] ELSE ys[j + 1]]

RECURSIVE CheckYears(_, _, _)
\* "for year in years: if <no record>: years.remove(year)": the list iterator
\* keeps a position i into the list that is being shortened under it
CheckYears(ys, i, ok) ==
    IF i > Len(ys) THEN ys
    ELSE IF ys[i] \in ok THEN CheckYears(ys, i + 1, ok)
    ELSE CheckYears(RemoveFirst(ys, ys[i]), i + 1, ok)

RECURSIVE CycleYears(_, _)
\* "while len(years) < self.nens: years += years"
CycleYears(ys, n) == IF Len(ys) < n THEN CycleYears(ys \o ys, n) ELSE ys

\* random.shuffle(years): the list reordered by the permutation perm
Shuffle(ys, perm) == [i \in 1..Len(ys) |-> ys[perm[i]]]

\* the member's window after "model.startyear = years[e]" and the end date
\* computed from it: the start's month and day in that year, ndays later
ESPModel(m, year, ndays) ==
    LET s == DateIn(year, m.start)
    IN [m EXCEPT !.start = s, !.end = s + ndays]

\* Ensemble._ESP(options), called once after the construction or setDates
\* (writeForcings); ys is the store's answer to the year query, ok the years
\* among them for which the record query finds a row
ESP(ys, ok) ==
    /\ ph = "dates"
    /\ epc = "none"
    /\ LET ndays == ens.end - ens.start
           kept == CheckYears(ys, 1, ok)
       IN /\ espYears' = ys
          /\ espOK' = ok
          /\ IF Len(kept) < 1
             THEN /\ epc' = "exit"
                  /\ UNCHANGED <<models, fexit, nidx>>
             ELSE \E perm \in Perms(1..Len(kept)) :
                     LET years == CycleYears(Shuffle(kept, perm), NEns)
                     IN /\ models' = [e \in Members |-> ESPModel(models[e], years[e], ndays)]
                        /\ epc' = "done"
                        /\ fexit' = IF CheckFails(opts) THEN "reported" ELSE "fetched"
                        /\ nidx' = IF CheckFails(opts) THEN 0 ELSE NVars * NEns
    /\ ph' = "forced"
    /\ UNCHANGED <<ens, failed, fillVars, dbVars, runVars, extVars, dirVars, obsVars, soilVars, opts>>

\* Ensemble.setDates(...): the ensemble's and every member's year, month and
\* day fields; startdate and enddate are not touched.  The locals of an
\* earlier _ESP call are gone.
EnsSetDates(s, e) ==
    /\ epc # "exit"
    /\ ens' = [start |-> s, end |-> e]
    /\ models' = [m \in Members |-> [models[m] EXCEPT !.start = s, !.end = e]]
    /\ espYears' = <<>>
    /\ espOK' = {}
    /\ epc' = "none"
    /\ ph' = "dates"
    /\ UNCHANGED <<failed, fillVars, dbVars, runVars, auxVars>>

NextESP ==
    \/ \E w \in EnsWindows : EnsSetDates(w[1], w[2])
    \/ \E cand \in SUBSET Years : \E ys \in Perms(cand) : \E ok \in SUBSET cand : ESP(ys, ok)

InitESPSpec == InitEns /\ NoFill /\ NoTable /\ NoRun /\ NoAux

SpecESP == InitESPSpec /\ [][NextESP]_vars

\* C3: no member is assigned a year whose record does not reach the start of
\* the window in that year plus the requested window length.
C3_AssignedYearsHaveRecord ==
    epc = "done" => \A e \in Members : YearOf(models[e].start) \in espOK

\* the year member e was assigned
AssignedYear(e) == YearOf(models[e].start)

\* C16: with k valid years among the candidates, k >= N gives the members
\* pairwise distinct years; 1 <= k < N gives every valid year to at least one
\* member and members e and e + k the same year; every member's shifted
\* window has the number of days of the requested one.
C16_DistinctOrCycledYears ==
    epc = "done" =>
        LET k == Cardinality(espOK)
        IN /\ k >= NEns =>
                 \A e1, e2 \in Members : e1 # e2 => AssignedYear(e1) # AssignedYear(e2)
           /\ (1 <= k /\ k < NEns) =>
                 /\ \A y \in espOK : \E e \in Members : AssignedYear(e) = y
                 /\ \A e \in 1..(NEns - k) : AssignedYear(e) = AssignedYear(e + k)
           /\ \A e \in Members : models[e].end - models[e].start = ens.end - ens.start

----------------------------------------------------------------------------
(* The output table: VIC.writeToDB, VIC.saveToDB, Ensemble.save *)

\* SQL NULL in the ensemble column (also: the table has no such column)
Null == -1

\* dbio.deleteRasters(dbname, table, dt): the rows of date dt are deleted
DeleteRasters(rows, dt) == {r \in rows : r.fdate # dt}

\* "for dt in [self.startdate + timedelta(t) ...]: dbio.deleteRasters(...)"
DeleteRange(rows, sd, ed) == {r \in rows : \A dt \in sd..ed : r \in DeleteRasters(rows, dt)}

\* the rows raster2pgsql loads into temp: one file per (date, layer) in the
\* order the files were written, T tiles per file, rid a serial starting at 1
Loaded(start, ndates, L, T) ==
    {[rid |-> ((t * L + (l - 1)) * T) + k, fdate |-> start + t, layer |-> l] :
        t \in 0..(ndates - 1), l \in 1..L, k \in 1..T}

\* the renumbering without its final + 1
TileIdZeroBased(rid, ntiles) == (rid + ntiles) % ntiles

\* "((rid+{2}) % {2})+1" of the insert
TileId(rid, ntiles) == ((rid + ntiles) % ntiles) + 1

\* "ntiles = n / data.shape[0]"
NTiles(n, ndates) == n \div ndates

\* the rows inserted from temp: renumbered tile, date, layer (when the
\* variable has layers), ensemble NULL; w, by and src record which save call,
\* which ensemble argument and which loaded row they come from
Inserted(temp, ndates, L, wid, by) ==
    {[rid |-> TileId(x.rid, NTiles(Cardinality(temp), ndates)), fdate |-> x.fdate,
      layer |-> IF L > 1 THEN x.layer ELSE 0, ens |-> Null, w |-> wid, by |-> by,
      src |-> x.rid] :
        x \in temp}

\* the column added to an existing table, its rows left as they are
PreparedNoBackfill(t, m, initialize, ensemble) ==
    LET t1 == IF t.exists /\ ensemble # 0 /\ ~t.hasEns THEN [t EXCEPT !.hasEns = TRUE] ELSE t
    IN IF t1.exists
       THEN (IF initialize
             THEN [t1 EXCEPT !.rows = {r \in t1.rows : r.fdate \notin m.startdate..m.enddate}]
             ELSE t1)
       ELSE [exists |-> TRUE, hasEns |-> ensemble # 0, rows |-> {}]

\* the first part of writeToDB: the ensemble column is added to an existing
\* table and zeroed, then the rows of startdate..enddate are deleted when
\* initialize is set; a missing table is created
Prepared(t, m, initialize, ensemble) ==
    LET t1 == IF t.exists /\ ensemble # 0 /\ ~t.hasEns
              THEN [t EXCEPT !.hasEns = TRUE, !.rows = {[r EXCEPT !.ens = 0] : r \in t.rows}]
              ELSE t
    IN IF t1.exists
       THEN (IF initialize
             THEN [t1 EXCEPT !.rows = DeleteRange(t1.rows, m.startdate, m.enddate)]
             ELSE t1)
       ELSE [exists |-> TRUE, hasEns |-> ensemble # 0, rows |-> {}]

\* data[skipsave:] has no date left: ntiles divides by zero
WriteRaises(nt, skipsave) == nt - skipsave <= 0

\* VIC.writeToDB(data, dates, tablename, initialize, ensemble, skipsave) of
\* instance m, data holding nt dates of L layers
WriteToDB(t, m, nt, initialize, ensemble, skipsave, L, T, wid) ==
    LET t2 == Prepared(t, m, initialize, ensemble)
        ndates == IF skipsave > 0 THEN nt - skipsave ELSE nt
        start == IF skipsave > 0 THEN m.start + skipsave ELSE m.start
    IN IF WriteRaises(nt, skipsave) THEN t2
       ELSE LET ins == Inserted(Loaded(start, ndates, L, T), ndates, L, wid, ensemble)
                t3 == [t2 EXCEPT !.rows = @ \cup ins]
            IN IF ensemble # 0
               THEN [t3 EXCEPT !.rows = {IF r.ens = Null THEN [r EXCEPT !.ens = ensemble] ELSE r : r \in @}]
               ELSE t3

\* self.writeToDB(data, dates, var, initialize, skipsave=skipsave) of
\* saveToDB: the method, or the write_wrapper Ensemble.save installed, which
\* passes its ensemble index and drops skipsave
CallWrite(t, m, nt, initialize, skipsave, L, T, wid) ==
    IF m.wrap # 0
    THEN WriteToDB(t, m, nt, initialize, m.wrap, 0, L, T, wid)
    ELSE WriteToDB(t, m, nt, initialize, 0, skipsave, L, T, wid)

\* the number of dates saveToDB expects in every output file
NT(m) == m.end - m.start + 1

\* pd.read_csv of a missing or empty output file raises, and so does the
\* assignment of a file with another number of rows than nt
ReadRaises(m) == m.out # NT(m)

RECURSIVE SaveMembers(_, _, _, _, _, _, _)
\* the loop of Ensemble.save(saveto="db") from member e on: the wrapper is
\* installed once, initialize is cleared after the first member, and an
\* exception of a member's save ends the loop
SaveMembers(e, t, ms, initialize, L, T, wid) ==
    IF e > NEns THEN [tbl |-> t, models |-> ms, ok |-> TRUE]
    ELSE LET m == IF ms[e].wrap = 0 THEN [ms[e] EXCEPT !.wrap = e] ELSE ms[e]
             ms1 == [ms EXCEPT ![e] = m]
             init1 == IF e > 1 THEN FALSE ELSE initialize
         IN IF ReadRaises(m)
            THEN [tbl |-> t, models |-> ms1, ok |-> FALSE]
            ELSE SaveMembers(e + 1, CallWrite(t, m, NT(m), init1, 0, L, T, wid),
                             ms1, init1, L, T, wid)

HistEntry(initialize, ok, skipsave, wins) ==
    [init |-> initialize, ok |-> ok, skip |-> skipsave, wins |-> wins]

\* Ensemble.save("db", args, initialize)
SaveEns(initialize) ==
    /\ ph \in {"ran", "saved"}
    /\ Len(hist) < MaxSaves
    /\ LET r == SaveMembers(1, tbl, models, initialize, nlay, tiles, Len(hist) + 1)
       IN /\ tbl' = r.tbl
          /\ models' = r.models
          /\ hist' = Append(hist, HistEntry(initialize, r.ok, 0,
                                [e \in Members |-> <<models[e].start, models[e].end>>]))
    /\ ph' = "saved"
    /\ UNCHANGED <<ens, espVars, failed, nlay, tiles, fillVars, runVars, auxVars>>

\* "options['vic']['precip']" and "options['vic'][k] for k in ['temperature',
\* 'wind']" raise KeyError for a key that is not there
DetermRaises(o) == ~({"precip", "temperature", "wind"} \subseteq o)

\* the options _determ hands to each member's getForcings
DetermOpts(o) == {"temperature", "wind", "precip"}

\* Ensemble._determ: the options are read, then every member fetches and
\* writes its forcings for its current window; no date field changes
Determ ==
    /\ ph = "dates"
    /\ epc # "exit"
    /\ IF DetermRaises(opts)
       THEN /\ ph' = "error"
            /\ fexit' = "keyerror"
            /\ nidx' = 0
       ELSE /\ ph' = "forced"
            /\ fexit' = IF CheckFails(DetermOpts(opts)) THEN "reported" ELSE "fetched"
            /\ nidx' = IF CheckFails(DetermOpts(opts)) THEN 0 ELSE NVars * NEns
    /\ UNCHANGED <<ensVars, espVars, failed, dbVars, fillVars, runVars, extVars,
                   dirVars, obsVars, soilVars, opts>>

\* Ensemble.run: every member's model process has run; the processes in bad
\* failed and left no output, the others wrote one row per day of the
\* window.  The year lists of _ESP were locals of that call.
RunEns(bad) ==
    /\ ph = "forced"
    /\ epc # "exit"
    /\ failed' = bad
    /\ models' = [e \in Members |-> [models[e] EXCEPT !.out = IF e \in bad THEN 0 ELSE NT(models[e])]]
    /\ ph' = "ran"
    /\ espYears' = <<>>
    /\ espOK' = {}
    /\ epc' = "none"
    /\ UNCHANGED <<ens, dbVars, fillVars, runVars, auxVars>>

\* a new program run on the same store: Ensemble.__init__ again
Construct(s, e) ==
    /\ ph = "saved"
    /\ Len(hist) < MaxSaves
    /\ ens' = [start |-> s, end |-> e]
    /\ models' = [m \in Members |-> NewModel(s, e)]
    /\ espYears' = <<>>
    /\ espOK' = {}
    /\ epc' = "none"
    /\ ph' = "dates"
    /\ failed' = {}
    /\ UNCHANGED <<dbVars, fillVars, runVars, auxVars>>

InitSaveSpec ==
    /\ InitEns
    /\ NoFill
    /\ tbl = [exists |-> FALSE, hasEns |-> FALSE, rows |-> {}]
    /\ nlay \in {1, MaxLayers}
    /\ tiles \in 1..MaxTiles
    /\ hist = <<>>
    /\ NoRun
    /\ NoAux

NextSave ==
    \/ \E w \in EnsWindows :
          Len(hist) < MaxSaves /\ ph \in {"dates", "saved"} /\ EnsSetDates(w[1], w[2])
    \/ \E cand \in SUBSET RecentYears : \E ys \in Perms(cand) : ESP(ys, cand)
    \/ Determ
    \/ \E bad \in SUBSET Members : RunEns(bad)
    \/ \E i \in BOOLEAN : SaveEns(i)
    \/ \E w \in EnsWindows : Construct(w[1], w[2])

SpecSave == InitSaveSpec /\ [][NextSave]_vars

\* the last save call returned normally
SaveReturned == Len(hist) > 0 /\ hist[Len(hist)].ok

\* the values of the layer column: none (0) for a variable without layers
LayerIds == IF nlay > 1 THEN 1..nlay ELSE {0}

RowsAt(d, l, e) == {r \in tbl.rows : r.fdate = d /\ r.layer = l /\ r.ens = e}

\* C5: after every Ensemble.save, for each date of the saved window, each layer
\* and each ensemble index, the table holds exactly one row per tile: nothing
\* is duplicated and nothing is missing.
C5_OneRowPerDateLayerEnsemble ==
    (ph = "saved" /\ SaveReturned) =>
        \A d \in ens.start..ens.end : \A l \in LayerIds : \A e \in Members :
            /\ Cardinality(RowsAt(d, l, e)) = tiles
            /\ Cardinality({r.rid : r \in RowsAt(d, l, e)}) = tiles

\* C6: after Ensemble.save has saved all N members, the rows of any date of
\* the window carry exactly the ensemble indices 1..N, each of them once per
\* tile and layer.
C6_EnsembleIndicesOneToN ==
    (ph = "saved" /\ SaveReturned) =>
        \A d \in ens.start..ens.end :
            /\ {r.ens : r \in {x \in tbl.rows : x.fdate = d}} = Members
            /\ \A e \in Members :
                  Cardinality({r \in tbl.rows : r.fdate = d /\ r.ens = e}) = tiles * nlay

\* the rows member e has from the last save call
SavedNow(e) == {r \in tbl.rows : r.w = Len(hist) /\ r.ens = e}

\* C10: in a save that follows a run with failed members, no row is written
\* for a failed member and every member that did not fail is persisted.
C10_OtherMembersPersisted ==
    (ph = "saved" /\ Len(hist) > 0) =>
        /\ \A e \in failed : SavedNow(e) = {}
        /\ \A e \in Members \ failed : SavedNow(e) # {}

----------------------------------------------------------------------------
(* One deterministic instance saving to the table: VIC.save, VIC.writeToDB *)

\* VIC.save("db", args, initialize, skipsave) of the instance after a complete
\* model run: saveToDB reads one row per day of the window and calls
\* writeToDB without an ensemble
VicSave(initialize, skipsave) ==
    /\ tbl' = WriteToDB(tbl, vic, WindowDays, initialize, 0, skipsave, nlay, tiles,
                        Len(hist) + 1)
    /\ hist' = Append(hist, HistEntry(initialize, ~WriteRaises(WindowDays, skipsave),
                                      skipsave, <<<<vic.start, vic.end>>>>))
    /\ UNCHANGED <<nlay, tiles, fillVars, ensVars, espVars, ph, failed, runVars, auxVars>>

InitWriteSpec ==
    /\ \E w \in Windows : vic = [start |-> w[1], end |-> w[2], startdate |-> w[1], enddate |-> w[2]]
    /\ seed = 0
    /\ data = <<>>
    /\ result = <<>>
    /\ fpc = "idle"
    /\ fout = "none"
    /\ ffiles = [g \in Pixels |-> [exists |-> FALSE, rows |-> <<>>]]
    /\ NoEns
    /\ tbl = [exists |-> FALSE, hasEns |-> FALSE, rows |-> {}]
    /\ nlay \in {1, MaxLayers}
    /\ tiles \in 1..MaxTiles
    /\ hist = <<>>
    /\ NoRun
    /\ NoAux

NextWrite ==
    \/ \E w \in Windows : Len(hist) < MaxSaves /\ SetDates(w[1], w[2])
    \/ \E i \in BOOLEAN : \E k \in 0..MaxSkip : Len(hist) < MaxSaves /\ VicSave(i, k)

SpecWrite == InitWriteSpec /\ [][NextWrite]_vars

\* the instance up to its first save to a new table
NextWriteOnce ==
    \/ \E w \in Windows : hist = <<>> /\ SetDates(w[1], w[2])
    \/ \E i \in BOOLEAN : \E k \in 0..MaxSkip : hist = <<>> /\ VicSave(i, k)

SpecWriteOnce == InitWriteSpec /\ [][NextWriteOnce]_vars

\* the last two save calls both initialized, returned, and had the same
\* window and skipsave
SavedTwice ==
    /\ Len(hist) >= 2
    /\ LET a == hist[Len(hist) - 1]
           b == hist[Len(hist)]
       IN a.init /\ b.init /\ a.ok /\ b.ok /\ a.skip = b.skip /\ a.wins = b.wins

\* C4: after two saves of the same output with initialize=true, no row of the
\* first save remains and no (date, layer, tile) is held twice.
C4_SecondSaveReplacesFirst ==
    SavedTwice =>
        /\ \A r \in tbl.rows : r.w # Len(hist) - 1
        /\ \A r1, r2 \in tbl.rows :
              (r1.fdate = r2.fdate /\ r1.layer = r2.layer /\ r1.rid = r2.rid) => r1 = r2

\* the rows the last writeToDB call inserted, and their dates
Written == {r \in tbl.rows : r.w = Len(hist)}
WrittenDates == {r.fdate : r \in Written}

\* C7: with ntiles = (loaded rows) / (dates of the save), the renumbered ids
\* of every date of a write are exactly 1..ntiles, and no two rows of one
\* (date, layer) have the same id, for variables with and without layers;
\* and the renumbering maps every contiguous range of ntiles loader ids,
\* wherever it starts, onto 1..ntiles.
C7_TileIdsOntoOneToNTiles ==
    /\ SaveReturned =>
          LET ntiles == NTiles(Cardinality(Written), Cardinality(WrittenDates))
          IN \A d \in WrittenDates :
                /\ {r.rid : r \in {x \in Written : x.fdate = d}} = 1..ntiles
                /\ \A r1, r2 \in Written :
                      (r1.fdate = d /\ r2.fdate = d /\ r1.layer = r2.layer /\ r1.rid = r2.rid)
                         => r1.src = r2.src
    /\ \A nt \in 1..(MaxLayers * MaxTiles) : \A b \in 0..(2 * nt) :
          {TileId(b + k, nt) : k \in 1..nt} = 1..nt

\* a write of a layered variable over two dates, each image cut into tiles
C7_LayeredWriteDone ==
    /\ SaveReturned
    /\ nlay > 1
    /\ tiles > 1
    /\ Cardinality(WrittenDates) >= 2
    /\ \E r \in Written : r.layer = nlay /\ r.src > nlay * tiles

----------------------------------------------------------------------------
(* Process fan-out: Ensemble.run and VIC.run in the member processes *)

\* how a member process can end: "ok", the executable exited with status 0;
\* "vicfail", the executable exited with another status or was killed, and
\* VIC.run, which only reads its output to the end, returned; "crashed",
\* VIC.run raised (the executable could not be started) or the process died
Exited == {"ok", "vicfail", "crashed"}

\* Ensemble.run is called: the list of Process objects is built
RunCall ==
    /\ ph = "forced"
    /\ epc # "exit"
    /\ rpc.at = "idle"
    /\ procs' = [e \in Members |-> "new"]
    /\ rpc' = [at |-> "start", i |-> 1]
    /\ runout' = "none"
    /\ UNCHANGED <<ensVars, espVars, ph, failed, fillVars, dbVars, auxVars>>

\* "for p in procs: p.start()"
StartProc ==
    /\ rpc.at = "start"
    /\ procs' = [procs EXCEPT ![rpc.i] = "running"]
    /\ rpc' = IF rpc.i = NEns THEN [at |-> "join", i |-> 1] ELSE [rpc EXCEPT !.i = @ + 1]
    /\ UNCHANGED <<runout, ensVars, espVars, ph, failed, fillVars, dbVars, auxVars>>

\* the process of member e ends: VIC.run in the child, which starts the
\* executable, reads its output and never looks at its exit status
ProcExit(e, st) ==
    /\ procs[e] = "running"
    /\ procs' = [procs EXCEPT ![e] = st]
    /\ UNCHANGED <<rpc, runout, ensVars, espVars, ph, failed, fillVars, dbVars, auxVars>>

\* a join that does not wait for the process to end
JoinNoWait ==
    /\ rpc.at = "join"
    /\ rpc.i <= NEns
    /\ rpc' = [rpc EXCEPT !.i = @ + 1]
    /\ UNCHANGED <<procs, runout, ensVars, espVars, ph, failed, fillVars, dbVars, auxVars>>

\* "for p in procs: p.join()": blocks until the process has ended
JoinProc ==
    /\ rpc.at = "join"
    /\ rpc.i <= NEns
    /\ procs[rpc.i] \in Exited
    /\ rpc' = [rpc EXCEPT !.i = @ + 1]
    /\ UNCHANGED <<procs, runout, ensVars, espVars, ph, failed, fillVars, dbVars, auxVars>>

\* the end of Ensemble.run: no exit code is read, the call returns None.  A
\* member whose executable ran to the end left one output row per day.
RunReturn ==
    /\ rpc.at = "join"
    /\ rpc.i = NEns + 1
    /\ rpc' = [at |-> "done", i |-> 0]
    /\ runout' = "returned"
    /\ failed' = {e \in Members : procs[e] # "ok"}
    /\ models' = [e \in Members |->
                    [models[e] EXCEPT !.out = IF procs[e] = "ok" THEN NT(models[e]) ELSE 0]]
    /\ ph' = "ran"
    /\ UNCHANGED <<procs, ens, espVars, fillVars, dbVars, auxVars>>

NextRun ==
    \/ \E w \in EnsWindows : ph = "dates" /\ EnsSetDates(w[1], w[2])
    \/ Determ
    \/ RunCall
    \/ StartProc
    \/ \E e \in Members : \E st \in Exited : ProcExit(e, st)
    \/ JoinProc
    \/ RunReturn

InitRunSpec == InitEns /\ NoFill /\ NoTable /\ NoRun /\ NoAux

SpecRun == InitRunSpec /\ [][NextRun]_vars

\* the parent keeps executing Ensemble.run, and every started member process
\* ends at some time
SpecRunFair ==
    /\ SpecRun
    /\ WF_vars(StartProc)
    /\ WF_vars(JoinProc)
    /\ WF_vars(RunReturn)
    /\ \A e \in Members : WF_vars(\E st \in Exited : ProcExit(e, st))

\* C8: when a member's model process ends with a failure, Ensemble.run ends
\* with an error for its caller once all processes have ended.
C8_FailedRunSurfaced ==
    (rpc.at = "done" /\ \E e \in Members : procs[e] # "ok") => runout = "raised"

\* C9: all N processes are started before the first join, Ensemble.run
\* returns only after every process has ended, a started run returns, and a
\* member's crash stops no other member from being started and ending.
C9_StartAllThenJoinAll ==
    /\ [](rpc.at = "join" => \A e \in Members : procs[e] # "new")
    /\ [](rpc.at = "done" => \A e \in Members : procs[e] \in Exited)
    /\ (rpc.at = "start") ~> (rpc.at = "done")
    /\ \A e, f \in Members :
          (procs[e] = "crashed") ~> (procs[f] \in Exited)

\* a run has returned in which one member crashed and another ended normally
C9_ReturnedAfterCrash ==
    /\ rpc.at = "done"
    /\ \E e, f \in Members : procs[e] = "crashed" /\ procs[f] = "ok"

----------------------------------------------------------------------------
(* Ensemble.save to a directory: the loop over the members, one turn a step *)

\* a turn that clears the destination whatever the member
ClearsAlways(e) == TRUE

\* "if e < 1": the turn that removes and recreates the destination (members
\* are counted from 1 here)
ClearsDest(e) == e = 1

\* the destination after rmtree or remove, and makedirs
Cleared == [kind |-> "dir", subs |-> {}]

\* shutil.copytree of VIC.save raises when its target exists or when the
\* destination is a file
CopyRaises(d, e) == d.kind = "file" \/ \E x \in d.subs : x[1] = e

\* Ensemble.save(saveto, args) with a directory is called after a run
SaveDirCall ==
    /\ ph \in {"ran", "saved"}
    /\ spos = 0
    /\ ncall < MaxSaves
    /\ spos' = 1
    /\ nclear' = 0
    /\ ncall' = ncall + 1
    /\ UNCHANGED <<dest, ensVars, espVars, ph, failed, fillVars, dbVars, runVars, extVars,
                   obsVars, soilVars, optVars>>

\* one turn of the loop: the write wrapper is installed, the first turn clears
\* the destination, and model.save(saveto/<e>, args, False) copies the
\* member's directory; an exception ends the call
SaveDirMember ==
    /\ spos > 0
    /\ LET e == spos
           d1 == IF ClearsDest(e) THEN Cleared ELSE dest
       IN /\ models' = [models EXCEPT ![e].wrap = IF @ = 0 THEN e ELSE @]
          /\ nclear' = IF ClearsDest(e) THEN nclear + 1 ELSE nclear
          /\ IF CopyRaises(d1, e)
             THEN /\ dest' = d1
                  /\ spos' = 0
             ELSE /\ dest' = [kind |-> "dir", subs |-> d1.subs \cup {<<e, ncall>>}]
                  /\ spos' = IF e = NEns THEN 0 ELSE e + 1
          /\ ph' = IF spos' = 0 THEN "saved" ELSE ph
    /\ UNCHANGED <<ncall, ens, espVars, failed, fillVars, dbVars, runVars, extVars,
                   obsVars, soilVars, optVars>>

\* the destination before the first save: nothing, a file, or a directory
\* with subdirectories of an earlier program
InitDirSpec ==
    /\ InitEns
    /\ NoFill
    /\ NoTable
    /\ NoRun
    /\ \E k \in {"none", "file", "dir"} : \E old \in SUBSET (1..NEns) :
          /\ (k # "dir" => old = {})
          /\ dest = [kind |-> k, subs |-> {<<i, 0>> : i \in old}]
    /\ spos = 0
    /\ nclear = 0
    /\ ncall = 0
    /\ NoObs
    /\ NoSoil
    /\ NoOpts
    /\ NoExt

NextDir ==
    \/ Determ
    \/ \E bad \in SUBSET Members : RunEns(bad)
    \/ SaveDirCall
    \/ SaveDirMember

SpecDir == InitDirSpec /\ [][NextDir]_vars

\* the subdirectories the members before turn e have written in this call
WrittenBefore(e) == {<<k, ncall>> : k \in 1..(e - 1)}

\* C11: the destination is cleared and recreated exactly once per call, before
\* any member writes; member e writes only <destination>/<e>, and no later
\* turn removes or overwrites what an earlier turn of the call has written.
C11_DestinationClearedOnce ==
    /\ [](spos > 1 => nclear = 1 /\ dest.kind = "dir" /\ dest.subs = WrittenBefore(spos))
    /\ []((spos = 0 /\ ncall > 0) =>
            nclear = 1 /\ dest.kind = "dir" /\ dest.subs = WrittenBefore(NEns + 1))
    /\ [][spos > 1 => dest.subs \subseteq dest'.subs]_vars

\* a second save to the destination is complete
C11_SecondSaveComplete ==
    spos = 0 /\ ncall = 2 /\ dest.subs = WrittenBefore(NEns + 1)

----------------------------------------------------------------------------
(* The soil file, the domain table and the pixel lists *)

\* the rows of "select line,gid,... from <name>.basin order by gid"
BasinRows == [g \in 1..NPixels |-> g]

\* the assignments of writeSoilFiles left out: every member keeps its own lists
KeepOwn(rf) == rf

\* "model.lat = self.models[0].lat" and the like: the attributes of every
\* other member are bound to the objects of the first
ShareFirst(rf) == [e \in Members |-> rf[1]]

\* VIC.writeSoilFile of member e: the domain table is created when absent;
\* the select of the line column fails when an earlier call's "drop column
\* line" took effect; the rows are appended to the instance's lists; the
\* final drop of the column is committed only by a self-committing connection
WriteSoilFile(b, h, rf, e) ==
    LET b1 == IF b.exists THEN b ELSE [b EXCEPT !.exists = TRUE, !.line = TRUE]
        o == rf[e]
    IN IF ~b1.line
       THEN [basin |-> b1, heap |-> h, ok |-> FALSE]
       ELSE [basin |-> [b1 EXCEPT !.line = ~b1.auto],
             heap |-> [h EXCEPT ![o] = [lat |-> @.lat \o BasinRows,
                                        gid |-> @.gid \cup {BasinRows[i] : i \in 1..NPixels}]],
             ok |-> TRUE]

\* Ensemble.writeSoilFiles: the first member writes, the others get a copy of
\* its file and its pixel containers; an exception of the first ends the call
EnsWriteSoilFiles ==
    /\ Len(soilout) < MaxSoil
    /\ LET r == WriteSoilFile(basin, heap, refs, 1)
       IN /\ basin' = r.basin
          /\ heap' = r.heap
          /\ refs' = IF r.ok THEN ShareFirst(refs) ELSE refs
          /\ soilout' = Append(soilout, [by |-> 1, ok |-> r.ok, lat |-> r.heap[refs[1]].lat])
    /\ UNCHANGED <<ensVars, espVars, ph, failed, fillVars, dbVars, runVars, extVars,
                   dirVars, obsVars, optVars>>

\* a later program run on the same store and simulation name: new instances
SoilRestart ==
    /\ soilout # <<>>
    /\ heap' = [o \in 1..NEns |-> [lat |-> <<>>, gid |-> {}]]
    /\ refs' = [e \in 1..NEns |-> e]
    /\ UNCHANGED <<basin, soilout, ensVars, espVars, ph, failed, fillVars, dbVars,
                   runVars, extVars, dirVars, obsVars, optVars>>

InitSoilSpec ==
    /\ InitEns
    /\ NoFill
    /\ NoTable
    /\ NoRun
    /\ NoDir
    /\ NoObs
    /\ NoOpts
    /\ NoExt
    /\ \E a \in BOOLEAN : basin = [exists |-> FALSE, line |-> FALSE, auto |-> a]
    /\ heap = [o \in 1..NEns |-> [lat |-> <<>>, gid |-> {}]]
    /\ refs = [e \in 1..NEns |-> e]
    /\ soilout = <<>>

NextSoil ==
    \/ EnsWriteSoilFiles
    \/ SoilRestart
    \/ \E w \in EnsWindows : ph = "dates" /\ EnsSetDates(w[1], w[2])
    \/ Determ
    \/ \E bad \in SUBSET Members : RunEns(bad)
    \/ \E i \in BOOLEAN : hist = <<>> /\ SaveEns(i)

SpecSoil == InitSoilSpec /\ [][NextSoil]_vars

\* Ensemble.writeSoilFiles has returned since the instances were made
SoilWritten == \E e \in Members : heap[refs[e]].lat # <<>>

\* C14: once writeSoilFiles has returned, every member has the same pixels in
\* the same order and the same grid ids, whatever ensemble operation follows.
C14_MembersSharePixels ==
    SoilWritten =>
        \A e \in Members :
            /\ heap[refs[e]].lat = heap[refs[1]].lat
            /\ heap[refs[e]].gid = heap[refs[1]].gid

\* the soil files were written twice and the ensemble has run and saved since
C14_SavedAfterSecondWrite ==
    /\ Len(soilout) = 2
    /\ soilout[2].ok
    /\ ph = "saved"
    /\ heap[refs[NEns]].lat # <<>>

\* C15: every writeSoilFile call after the one that built the domain table
\* succeeds and gives the calling instance the pixel list of the first call,
\* each pixel once.
C15_LaterCallsReuseTable ==
    \A i \in 2..Len(soilout) :
        /\ soilout[i].ok
        /\ soilout[i].lat = soilout[1].lat
        /\ soilout[i].lat = BasinRows

----------------------------------------------------------------------------
(* The observation loop of runEnsembleVIC, results saved to a directory *)

\* "relativedelta(months=3)" before the start date, in days of the model
SpinUp == 1

RECURSIVE SortedDates(_)
\* the dates of a set in ascending order
SortedDates(S) ==
    IF S = {} THEN <<>>
    ELSE LET d == Min(S) IN <<d>> \o SortedDates(S \ {d})

\* the guard of the correction left out
AnyData(d) == TRUE

\* "if bool(data)"
HasData(d) == d

\* assimilate(options, t, models): data can only be returned for a date that
\* has an observation
Assimilate(t, obs) == IF t \in obs THEN BOOLEAN ELSE {FALSE}

\* the index of the first member whose state file is absent, NEns + 1 if none
FirstAbsent(sf) == Min({e \in Members : ~sf[e].exists} \cup {NEns + 1})

\* Ensemble.updateStateFiles: the state files are read, corrected and written
\* member by member; reading an absent file raises
UpdateStateFiles(sf) ==
    [e \in Members |-> IF e < FirstAbsent(sf) THEN [sf[e] EXCEPT !.writes = @ + 1] ELSE sf[e]]

\* the first member's entry handed to every member
StateFileOfFirst(sf, e) == sf[1]

\* "self.statefiles[e]"
StateFileOf(sf, e) == sf[e]

\* the INIT_STATE line writeParamFiles gives member m: its entry of
\* statefiles when the list is not empty, none otherwise (statefile = "",
\* init_state = False); files are the state files on disk at that time
InitState(sf, files, m) ==
    IF Len(sf) > 0
    THEN LET n == StateFileOf(sf, m)
         IN [owner |-> n[1], day |-> n[2],
             exists |-> files[n[1]].day = n[2] /\ files[n[1]].exists]
    ELSE [owner |-> 0, day |-> 0, exists |-> FALSE]

\* setDates(s, e), writeParamFiles(savestate=True), writeSoilFiles,
\* writeForcings("esp") and the start of the model processes of run
StartWindow(s, e, ys, perm) ==
    LET r == WriteSoilFile(basin, heap, refs, 1)
        ms == [m \in Members |-> [models[m] EXCEPT !.start = s, !.end = e]]
        kept == CheckYears(ys, 1, {ys[j] : j \in 1..Len(ys)})
    IN /\ ens' = [start |-> s, end |-> e]
       /\ basin' = r.basin
       /\ heap' = r.heap
       /\ refs' = IF r.ok THEN ShareFirst(refs) ELSE refs
       /\ soilout' = Append(soilout, [by |-> 1, ok |-> r.ok, lat |-> r.heap[refs[1]].lat])
       /\ IF ~r.ok
          THEN /\ models' = ms
               /\ espYears' = <<>> /\ espOK' = {} /\ epc' = "none"
               /\ ph' = "dates"
               /\ opc' = "error"
               /\ UNCHANGED <<fexit, nidx>>
          ELSE /\ espYears' = ys
               /\ espOK' = {ys[j] : j \in 1..Len(ys)}
               /\ ph' = "forced"
               /\ IF Len(kept) < 1
                  THEN /\ models' = ms
                       /\ epc' = "exit"
                       /\ opc' = "exit"
                       /\ UNCHANGED <<fexit, nidx>>
                  ELSE LET years == CycleYears(Shuffle(kept, perm), NEns)
                       IN /\ models' = [m \in Members |-> ESPModel(ms[m], years[m], e - s)]
                          /\ epc' = "done"
                          /\ opc' = "running"
                          /\ fexit' = IF CheckFails(opts) THEN "reported" ELSE "fetched"
                          /\ nidx' = IF CheckFails(opts) THEN 0 ELSE NVars * NEns
       /\ sfiles' = [m \in Members |->
                        IF sfiles[m].day = e THEN sfiles[m]
                        ELSE [day |-> e, exists |-> FALSE, writes |-> 0]]
       /\ ctl' = [ctl EXCEPT !.init = [m \in Members |-> InitState(ctl.statefiles, sfiles, m)]]

\* nowcast.py:108-110 up to the start of the spin-up run
ObsEnter(ys, perm) ==
    /\ opc = "idle"
    /\ ph = "dates"
    /\ perm \in Perms(1..Len(ys))
    /\ ens.start - SpinUp >= 0
    /\ StartWindow(ens.start - SpinUp, ens.start, ys, perm)
    /\ widx' = [i |-> 0, t0 |-> ens.start, dates |-> <<ens.end>>]
    /\ UNCHANGED <<failed, fillVars, dbVars, runVars, opix, grid, tmax, dread, dirVars, obsdata, conn,
                   opts>>

\* nowcast.py:116-120 up to the start of the window's run
WinRun(ys, perm) ==
    /\ opc = "ready"
    /\ perm \in Perms(1..Len(ys))
    /\ StartWindow(widx.t0, widx.dates[widx.i], ys, perm)
    /\ UNCHANGED <<widx, failed, fillVars, dbVars, runVars, opix, grid, tmax, dread, dirVars, obsdata,
                   conn, opts>>

\* the processes have ended and run returns; the members in bad failed and
\* wrote neither output nor state file.  After the spin-up the update dates
\* are read (obs: the dates of the window that have an observation); in the
\* loop "t0 = t"
WinRan(bad, obs) ==
    /\ opc = "running"
    /\ failed' = bad
    /\ models' = [e \in Members |-> [models[e] EXCEPT !.out = IF e \in bad THEN 0 ELSE NT(models[e])]]
    /\ sfiles' = [e \in Members |->
                     IF e \in bad THEN sfiles[e]
                     ELSE [day |-> ens.end, exists |-> TRUE, writes |-> 0]]
    /\ espYears' = <<>>
    /\ espOK' = {}
    /\ epc' = "none"
    /\ ph' = "ran"
    /\ IF widx.i = 0
       THEN /\ obs \subseteq (widx.t0)..(widx.dates[1])
            /\ widx' = [i |-> 1, t0 |-> widx.t0, dates |-> SortedDates(obs) \o widx.dates]
            /\ opc' = "ready"
       ELSE /\ obs = {}
            /\ widx' = [widx EXCEPT !.t0 = widx.dates[widx.i]]
            /\ opc' = "ran"
    /\ ctl' = [ctl EXCEPT !.statefiles = [e \in Members |-> <<e, ens.end>>]]
    /\ UNCHANGED <<ens, fillVars, dbVars, runVars, opix, grid, tmax, dread, dirVars, obsdata, conn,
                   soilVars, optVars>>

\* the dates the observation query returned
ObsDates == {widx.dates[j] : j \in 1..(Len(widx.dates) - 1)}

\* nowcast.py:123-125: assimilate and, for non-empty data, updateStateFiles
WinAssimilate(d) ==
    /\ opc = "ran"
    /\ d \in Assimilate(widx.dates[widx.i], ObsDates)
    /\ obsdata' = d
    /\ IF HasData(d)
       THEN /\ sfiles' = UpdateStateFiles(sfiles)
            /\ opc' = IF FirstAbsent(sfiles) <= NEns THEN "error" ELSE "assim"
       ELSE /\ sfiles' = sfiles
            /\ opc' = "assim"
    /\ UNCHANGED <<widx, conn, ensVars, espVars, ph, failed, fillVars, dbVars, runVars, extVars,
                   dirVars, soilVars, optVars>>

\* nowcast.py:126-132: save to the directory (cleared, then one subdirectory
\* per member), a connection and a cursor that are bound to the loop's locals
\* and not closed, the rasters of date t deleted from the tables, next date
WinSave ==
    /\ opc = "assim"
    /\ dest' = [kind |-> "dir", subs |-> {<<e, ncall + 1>> : e \in Members}]
    /\ ncall' = ncall + 1
    /\ nclear' = 1
    /\ models' = [e \in Members |-> [models[e] EXCEPT !.wrap = IF @ = 0 THEN e ELSE @]]
    /\ ph' = "saved"
    /\ conn' = 1
    /\ tbl' = [tbl EXCEPT !.rows = DeleteRasters(@, widx.dates[widx.i])]
    /\ IF widx.i = Len(widx.dates)
       THEN /\ opc' = "finished"
            /\ widx' = widx
       ELSE /\ opc' = "ready"
            /\ widx' = [widx EXCEPT !.i = @ + 1]
    /\ UNCHANGED <<sfiles, obsdata, spos, ens, espVars, failed, fillVars, nlay, tiles, hist,
                   runVars, extVars, soilVars, optVars>>

InitObsSpec ==
    /\ InitEns
    /\ NoFill
    /\ NoTable
    /\ NoRun
    /\ NoDir
    /\ NoObs
    /\ NoOpts
    /\ NoExt
    /\ \E a \in BOOLEAN : basin = [exists |-> FALSE, line |-> FALSE, auto |-> a]
    /\ heap = [o \in 1..NEns |-> [lat |-> <<>>, gid |-> {}]]
    /\ refs = [e \in 1..NEns |-> e]
    /\ soilout = <<>>

NextObs ==
    \/ \E cand \in SUBSET RecentYears : \E ys \in Perms(cand) : \E perm \in Perms(1..Len(ys)) :
          ObsEnter(ys, perm)
    \/ \E cand \in SUBSET RecentYears : \E ys \in Perms(cand) : \E perm \in Perms(1..Len(ys)) :
          WinRun(ys, perm)
    \/ \E bad \in SUBSET Members : \E obs \in SUBSET PresentDays : WinRan(bad, obs)
    \/ \E d \in BOOLEAN : WinAssimilate(d)
    \/ WinSave

SpecObs == InitObsSpec /\ [][NextObs]_vars

\* C12: the assimilation step of a window whose data is empty reads and
\* writes no state file and raises nothing, and the loop goes on to the save
\* and from there to the next window or the end.
C12_EmptyDataLeavesStateFiles ==
    /\ [][(opc = "ran" /\ opc' # "ran" /\ ~obsdata') => (sfiles' = sfiles /\ opc' = "assim")]_vars
    /\ [][(opc = "assim" /\ ~obsdata) => opc' \in {"ready", "finished"}]_vars

\* the run of the second window was started after a first window without data
C12_NextWindowAfterEmptyData ==
    /\ opc = "running"
    /\ widx.i = 2
    /\ ~obsdata
    /\ \E e \in Members : sfiles[e].exists

\* C23: in every update window, the control file of member e names the state
\* file of member e's own directory dated at the window's start, which is
\* the file member e wrote in the run just before (the spin-up for the first
\* window) unless its process failed there.
C23_OwnStateOfPreviousSegment ==
    (opc = "running" /\ widx.i >= 1) =>
        \A e \in Members :
            /\ ctl.init[e].owner = e
            /\ ctl.init[e].day = ens.start
            /\ ens.start = widx.t0
            /\ e \notin failed => ctl.init[e].exists

\* the second update window was started, every member with the state it
\* wrote in the first
C23_SecondWindowRestarted ==
    /\ opc = "running"
    /\ widx.i = 2
    /\ failed = {}
    /\ \A e \in Members : ctl.init[e].exists /\ ctl.init[e].owner = e

\* C13: once the members have run to the end date of the last window, no
\* state file is corrected or rewritten.
C13_NoCorrectionAfterFinalRun ==
    [][(opc = "ran" /\ widx.i = Len(widx.dates)) => sfiles' = sfiles]_vars

\* C18: while the model processes of a run are executing, the program holds
\* no open connection to the store.
C18_NoConnectionWhileRunning ==
    opc = "running" => conn = 0

----------------------------------------------------------------------------
(* Forcing retrieval with incomplete options *)

\* a forcing instance and an ensemble, given the same options
InitOptsSpec ==
    /\ InitFill
    /\ InitEns
    /\ NoTable
    /\ NoRun
    /\ NoDir
    /\ NoObs
    /\ NoSoil
    /\ opts \in SUBSET OptionKeys
    /\ fexit = "none"
    /\ nidx = 0
    /\ NoExt

\* the program retrieves the forcings of the instance (runDeterministicVIC)
\* or those of the ensemble (runEnsembleVIC with the method "determ")
NextOpts ==
    \/ fexit = "none" /\ GetForcings
    \/ fexit = "none" /\ Determ

SpecOpts == InitOptsSpec /\ [][NextOpts]_vars

\* C17: a retrieval with options that lack precipitation, temperature or wind
\* ends with the reported fatal error, before an index table is created, a
\* tile is read or a forcing file is written.
C17_MissingSourceReportedFatal ==
    (~(Required \subseteq opts) /\ fexit # "none") =>
        /\ fexit = "reported"
        /\ nidx = 0
        /\ data = <<>>
        /\ \A g \in Pixels : ~ffiles[g].exists

----------------------------------------------------------------------------
(* The ensemble column: ensemble saves and saves of one instance on one table *)

\* the table an earlier ensemble run over the window [s, e] left
EarlierEnsTable(s, e) ==
    SaveMembers(1, [exists |-> FALSE, hasEns |-> FALSE, rows |-> {}],
                [m \in Members |-> [NewModel(s, e) EXCEPT !.out = e - s + 1]],
                TRUE, 1, 1, 0).tbl

\* a deterministic instance and an ensemble of the same simulation name; the
\* output table is absent or left by an earlier ensemble run
InitTagSpec ==
    /\ \E w \in Windows : vic = [start |-> w[1], end |-> w[2], startdate |-> w[1], enddate |-> w[2]]
    /\ seed = 0
    /\ data = <<>>
    /\ result = <<>>
    /\ fpc = "idle"
    /\ fout = "none"
    /\ ffiles = [g \in Pixels |-> [exists |-> FALSE, rows |-> <<>>]]
    /\ InitEns
    /\ \/ tbl = [exists |-> FALSE, hasEns |-> FALSE, rows |-> {}]
       \/ \E w \in EnsWindows : tbl = EarlierEnsTable(w[1], w[2])
    /\ nlay = 1
    /\ tiles = 1
    /\ hist = <<>>
    /\ NoRun
    /\ NoAux

NextTag ==
    \/ \E i \in BOOLEAN : Len(hist) < MaxSaves /\ VicSave(i, 0)
    \/ Determ
    \/ \E bad \in SUBSET Members : RunEns(bad)
    \/ \E i \in BOOLEAN : SaveEns(i)

SpecTag == InitTagSpec /\ [][NextTag]_vars

\* rows r and q are one stored row, but for the value of the ensemble column
SameRow(r, q) ==
    /\ r.w = q.w /\ r.by = q.by /\ r.src = q.src
    /\ r.rid = q.rid /\ r.fdate = q.fdate /\ r.layer = q.layer

\* the last save was one of the ensemble
ByEnsemble == Len(hist) > 0 /\ Len(hist[Len(hist)].wins) > 1

\* C21: the rows the ensemble save wrote for the member at position e carry
\* e + 1, and no save changes the ensemble value of a row an earlier save
\* wrote into a table that has the ensemble column.
C21_StableEnsembleIndex ==
    /\ [](\A e \in Members : models[e].wrap \in {0, e})
    /\ [][\A e \in Members : models[e].wrap # 0 => models'[e].wrap = models[e].wrap]_vars
    /\ []((ByEnsemble /\ hist[Len(hist)].ok) =>
            \A e \in Members :
               Cardinality({r \in Written : r.by = e /\ r.ens = e}) = NT(models[e]) * nlay * tiles)
    /\ [](ByEnsemble => \A r \in Written : r.by \in Members /\ r.ens = r.by)
    /\ [][tbl.hasEns =>
            \A r \in tbl.rows : \A q \in tbl'.rows : SameRow(r, q) => q.ens = r.ens]_vars

\* C24: the ensemble save that adds the column to an existing table leaves
\* every earlier row with ensemble 0; a row that has a value is never given
\* another one; after an ensemble save that wrote, no row has a null value.
C24_ColumnAddedAndBackfilled ==
    /\ [][(tbl.exists /\ ~tbl.hasEns /\ tbl'.hasEns) =>
            \A q \in tbl'.rows : q.w <= Len(hist) => q.ens = 0]_vars
    /\ [][tbl.hasEns =>
            \A r \in tbl.rows : \A q \in tbl'.rows :
               (r.ens # Null /\ SameRow(r, q)) => q.ens = r.ens]_vars
    /\ []((ByEnsemble /\ 1 \notin failed) => \A r \in tbl.rows : r.ens # Null)

\* the ensemble saved into a table that an instance had created and filled,
\* and rows of that instance are still there
C24_BackfilledRowsPresent ==
    /\ ByEnsemble
    /\ hist[Len(hist)].ok
    /\ \E r \in tbl.rows : r.ens = 0
    /\ \E r \in tbl.rows : r.ens = NEns

----------------------------------------------------------------------------
(* VIC.saveToDB: the output files decoded onto the grid of the bounding box *)

\* self.nodata
NoData == -9999

\* the domains: every pixel on a cell of its own, in the order of the soil file
Domains == {p \in [Pixels -> 1..MaxPos] : \A g, h \in Pixels : g < h => p[g] < p[h]}

\* the cells of the bounding box: "max(self.lat) - min(self.lat)" and the like
BoxCells(px) == Min({px[g].pos : g \in Pixels})..Max({px[g].pos : g \in Pixels})

\* pd.read_csv raises for a file that is not there and for one without rows
ReadCsvRaises(f) == f \in {"absent", "empty"}

RECURSIVE Decode(_, _, _)
\* the loop over the pixels from pixel c on: the output file is read and its
\* columns are put into the pixel's cell; an exception of read_csv ends it
Decode(px, c, cells) ==
    IF c > NPixels THEN [status |-> "done", cells |-> cells]
    ELSE IF ReadCsvRaises(px[c].file) THEN [status |-> "raised", cells |-> cells]
    ELSE Decode(px, c + 1, [cells EXCEPT ![px[c].pos] = c])

\* VIC.saveToDB(args, initialize) of the instance: the arrays are filled with
\* nodata, the output files decoded, and the result handed to writeToDB
SaveToDB(initialize) ==
    /\ grid.status = "none"
    /\ LET r == Decode(opix, 1, [c \in BoxCells(opix) |-> NoData])
       IN /\ grid' = r
          /\ IF r.status = "raised"
             THEN /\ tbl' = tbl
                  /\ hist' = Append(hist, HistEntry(initialize, FALSE, 0, <<<<vic.start, vic.end>>>>))
             ELSE /\ tbl' = WriteToDB(tbl, vic, WindowDays, initialize, 0, 0, nlay, tiles,
                                      Len(hist) + 1)
                  /\ hist' = Append(hist, HistEntry(initialize, TRUE, 0, <<<<vic.start, vic.end>>>>))
    /\ UNCHANGED <<opix, tmax, ctl, dread, nlay, tiles, fillVars, ensVars, espVars, ph, failed, runVars,
                   dirVars, obsVars, soilVars, optVars>>

\* an instance after its model run: a domain and, per pixel, the output file
\* the model process left
InitGridSpec ==
    /\ InitFill
    /\ NoEns
    /\ NoTable
    /\ NoRun
    /\ NoDir
    /\ NoObs
    /\ NoSoil
    /\ NoOpts
    /\ \E p \in Domains : \E f \in [Pixels -> {"absent", "empty", "full"}] :
          opix = [g \in Pixels |-> [pos |-> p[g], file |-> f[g]]]
    /\ grid = [status |-> "none", cells |-> <<>>]
    /\ tmax = [data |-> <<>>, result |-> <<>>]
    /\ ctl = [statefiles |-> <<>>, init |-> <<>>]
    /\ dread = [e \in 1..NEns |-> {}]

NextGrid ==
    \/ \E w \in Windows : grid.status = "none" /\ SetDates(w[1], w[2])
    \/ \E i \in BOOLEAN : SaveToDB(i)

SpecGrid == InitGridSpec /\ [][NextGrid]_vars

\* C22: saveToDB does not raise for a pixel without output file or with an
\* empty one; that pixel's cell and the cells of no pixel keep the sentinel,
\* the other pixels are decoded and saved.
C22_MissingOutputKeepsSentinel ==
    grid.status # "none" =>
        /\ grid.status = "done"
        /\ hist[Len(hist)].ok
        /\ \A g \in Pixels :
              grid.cells[opix[g].pos] = IF opix[g].file = "full" THEN g ELSE NoData
        /\ \A c \in BoxCells(opix) :
              (\A g \in Pixels : opix[g].pos # c) => grid.cells[c] = NoData

----------------------------------------------------------------------------
(* The two windows of an instance and the dates of the rows of an ensemble  *)

\* C28: after any sequence of Ensemble.setDates and _ESP calls, every member's
\* startdate and enddate are the dates of its startyear/startmonth/startday
\* and endyear/endmonth/endday fields.
C28_DateFieldsAgree ==
    \A e \in Members :
        /\ models[e].startdate = models[e].start
        /\ models[e].enddate = models[e].end

\* C29: every row of the last Ensemble.save is dated within the window the
\* ensemble was asked to simulate, whatever year the member's forcings were
\* taken from.
C29_RowsDatedInRequestedWindow ==
    ph = "saved" =>
        \A r \in tbl.rows : r.w = Len(hist) => r.fdate \in ens.start..ens.end

----------------------------------------------------------------------------
(* VIC.writeForcings: two of the four variables side by side *)

\* the series _handleMissingData can return for the fetched series rows,
\* over the answers of the retry queries and the order of the dictionary;
\* raised is the reindex of a series with duplicate dates
Handled(rows) ==
    LET nopix == Pixels \ Gids(rows)
    IN UNION {
          LET r == RetryRows(rows, NPixels, WindowDays, vic.start, vic.end, retry, pord)
          IN IF ReindexRaises(r, NPixels, WindowDays)
             THEN {[raised |-> TRUE, rows |-> <<>>]}
             ELSE {[raised |-> FALSE,
                    rows |-> FillGaps(r, NPixels, WindowDays, vic.startdate, vic.enddate, gord)] :
                      gord \in Perms(Gids(r))} :
          retry \in [nopix -> SUBSET (vic.start..vic.end)], pord \in Perms(nopix)}

\* VIC.getForcings for precip and tmax: each variable has its own index
\* table and its own tile reads over the same window
GetForcingsBoth ==
    /\ fpc = "idle"
    /\ fout = "none"
    /\ ~CheckFails(opts)
    /\ \E asg \in Assignments : \E miss \in SUBSET (Pixels \X (vic.start..vic.end)) :
          /\ Cardinality(miss) <= MaxMiss
          /\ data' = Fetched(asg, vic.start, vic.end, miss)
    /\ \E asg \in Assignments : \E miss \in SUBSET (Pixels \X (vic.start..vic.end)) :
          /\ Cardinality(miss) <= MaxMiss
          /\ tmax' = [data |-> Fetched(asg, vic.start, vic.end, miss), result |-> <<>>]
    /\ fexit' = "fetched"
    /\ nidx' = NVars
    /\ fpc' = "fetched"
    /\ result' = <<>>
    /\ fout' = "none"
    /\ UNCHANGED <<vic, seed, ffiles, ensVars, espVars, ph, failed, dbVars, runVars, opix, grid, ctl, dread,
                   dirVars, obsVars, soilVars, opts>>

\* the files when the loop of writeForcings raises at row n + 1: the rows up
\* to n are written, and the file of row n + 1 is opened, which empties it,
\* when that row is of another pixel than row n
WriteUntil(f, rows, n) ==
    LET f1 == WriteFiles(f, SubSeq(rows, 1, n), 1, 0)
        g == rows[n + 1][1]
    IN IF n = 0 \/ rows[n][1] # g THEN [f1 EXCEPT ![g] = [exists |-> TRUE, rows |-> <<>>]] ELSE f1

\* VIC.writeForcings(prec, tmax, ...): each series goes through
\* _handleMissingData by itself, then row i of the files is written from
\* prec[i] and tmax[i]; tmax[i] past the end of a shorter tmax raises
WriteForcingsBoth ==
    /\ fpc = "fetched"
    /\ \E hp \in Handled(data) : \E ht \in Handled(tmax.data) :
          IF hp.raised \/ ht.raised
          THEN /\ fout' = "raised"
               /\ result' = <<>>
               /\ tmax' = [tmax EXCEPT !.result = <<>>]
               /\ ffiles' = ffiles
          ELSE /\ result' = hp.rows
               /\ tmax' = [tmax EXCEPT !.result = ht.rows]
               /\ IF Len(ht.rows) < Len(hp.rows)
                  THEN /\ fout' = "raised"
                       /\ ffiles' = WriteUntil(ffiles, hp.rows, Len(ht.rows))
                  ELSE /\ fout' = "returned"
                       /\ ffiles' = WriteFiles(ffiles, hp.rows, 1, 0)
    /\ fpc' = "idle"
    /\ UNCHANGED <<vic, seed, data, ensVars, espVars, ph, failed, dbVars, runVars, opix, grid, ctl, dread,
                   dirVars, obsVars, soilVars, optVars>>

\* one content of the store; the alignment does not depend on the values
InitBothSpec == InitFill /\ seed = 0 /\ NoEns /\ NoTable /\ NoRun /\ NoAux

NextBoth ==
    \/ NoFiles /\ GetForcingsBoth
    \/ WriteForcingsBoth

SpecBoth == InitBothSpec /\ [][NextBoth]_vars

\* C25: after the gap handling of the variables, entry i of precip and entry
\* i of tmax are of the same pixel and the same date, for every i.
C25_SeriesAligned ==
    fout = "returned" =>
        \A i \in 1..Len(result) :
            /\ result[i][1] = tmax.result[i][1]
            /\ result[i][2] = tmax.result[i][2]

----------------------------------------------------------------------------
(* The observation loop of runEnsembleVIC, results saved to the table *)

\* nowcast.py:126-132 with saveto = "db": Ensemble.save with its default
\* initialize = True, then the rasters of date t deleted from every table of
\* the schema; an exception of a member's save ends the program
WinSaveDb ==
    /\ opc = "assim"
    /\ LET r == SaveMembers(1, tbl, models, TRUE, nlay, tiles, Len(hist) + 1)
       IN /\ models' = r.models
          /\ hist' = Append(hist, HistEntry(TRUE, r.ok, 0,
                                [e \in Members |-> <<models[e].start, models[e].end>>]))
          /\ IF ~r.ok
             THEN /\ tbl' = r.tbl
                  /\ opc' = "error"
                  /\ UNCHANGED <<conn, widx>>
             ELSE /\ tbl' = [r.tbl EXCEPT !.rows = DeleteRasters(@, widx.dates[widx.i])]
                  /\ conn' = 1
                  /\ IF widx.i = Len(widx.dates)
                     THEN /\ opc' = "finished"
                          /\ widx' = widx
                     ELSE /\ opc' = "ready"
                          /\ widx' = [widx EXCEPT !.i = @ + 1]
    /\ ph' = "saved"
    /\ UNCHANGED <<sfiles, obsdata, ens, espVars, failed, fillVars, nlay, tiles, runVars,
                   extVars, dirVars, soilVars, optVars>>

NextObsDb ==
    \/ \E cand \in SUBSET RecentYears : \E ys \in Perms(cand) : \E perm \in Perms(1..Len(ys)) :
          ObsEnter(ys, perm)
    \/ \E cand \in SUBSET RecentYears : \E ys \in Perms(cand) : \E perm \in Perms(1..Len(ys)) :
          WinRun(ys, perm)
    \/ \E bad \in SUBSET Members : \E obs \in SUBSET PresentDays : WinRan(bad, obs)
    \/ \E d \in BOOLEAN : WinAssimilate(d)
    \/ WinSaveDb

SpecObsDb == InitObsSpec /\ [][NextObsDb]_vars

\* C26: the save of a later window deletes no row that the table holds for
\* a date before that window's start.
C26_EarlierRowsKept ==
    [][(opc = "assim" /\ widx.i > 1) =>
          \A r \in tbl.rows : r.fdate < ens.start => r \in tbl'.rows]_vars

\* the dates two consecutive windows share
BoundaryDates == {widx.dates[j] : j \in 1..(Len(widx.dates) - 1)}

\* C27: when the loop has finished, every date shared by two consecutive
\* windows has one row per tile and layer for every member, and the end date
\* of the run has rows for every member.
C27_BoundaryOnceFinalPresent ==
    opc = "finished" =>
        /\ \A d \in BoundaryDates : \A e \in Members :
              Cardinality(RowsAt(d, 0, e)) = tiles
        /\ \A e \in Members : \E r \in tbl.rows : r.fdate = ens.end /\ r.ens = e

----------------------------------------------------------------------------
(* Ensemble.save with a drought index among the variables: drought.calcSPI *)

\* the rows the queries of calcSPI select from the rainfall table: "and
\* (ensemble={0} or ensemble=0)" is added when bool(ensemble), nothing
\* otherwise; the months of the duration reach back over every earlier date
CalcRows(rows, ensemble, enddate) ==
    {r \in rows : r.fdate <= enddate /\ (ensemble # 0 => (r.ens = ensemble \/ r.ens = 0))}

\* "model.save(saveto, args, initialize, ensemble=e)": e of "for e in
\* range(self.nens)" for the member at position pos, counted from 1
SaveArg(pos) == pos - 1

RECURSIVE SaveMembersIndex(_, _, _, _, _, _, _, _)
\* the loop of Ensemble.save(saveto="db") from member e on when the variables
\* are the rainfall and an index computed from it: as SaveMembers, and after
\* the member's rainfall is written drought.calc reads the table with the
\* ensemble argument of model.save; reads collects the indices of the rows read
SaveMembersIndex(e, t, ms, initialize, L, T, wid, reads) ==
    IF e > NEns THEN [tbl |-> t, models |-> ms, ok |-> TRUE, reads |-> reads]
    ELSE LET m == IF ms[e].wrap = 0 THEN [ms[e] EXCEPT !.wrap = e] ELSE ms[e]
             ms1 == [ms EXCEPT ![e] = m]
             init1 == IF e > 1 THEN FALSE ELSE initialize
             t1 == CallWrite(t, m, NT(m), init1, 0, L, T, wid)
         IN IF ReadRaises(m)
            THEN [tbl |-> t, models |-> ms1, ok |-> FALSE, reads |-> reads]
            ELSE SaveMembersIndex(e + 1, t1, ms1, init1, L, T, wid,
                    [reads EXCEPT ![e] = {r.ens : r \in CalcRows(t1.rows, SaveArg(e), m.end)}])

\* Ensemble.save("db", args, initialize) with args naming the rainfall and a
\* drought index
SaveEnsIndex(initialize) ==
    /\ ph \in {"ran", "saved"}
    /\ Len(hist) < MaxSaves
    /\ LET r == SaveMembersIndex(1, tbl, models, initialize, nlay, tiles, Len(hist) + 1,
                                 [e \in Members |-> {}])
       IN /\ tbl' = r.tbl
          /\ models' = r.models
          /\ dread' = r.reads
          /\ hist' = Append(hist, HistEntry(initialize, r.ok, 0,
                                [e \in Members |-> <<models[e].start, models[e].end>>]))
    /\ ph' = "saved"
    /\ UNCHANGED <<ens, espVars, failed, nlay, tiles, fillVars, runVars, dirVars, obsVars,
                   soilVars, optVars, opix, grid, tmax, ctl>>

NextIndex ==
    \/ \E w \in EnsWindows :
          Len(hist) < MaxSaves /\ ph \in {"dates", "saved"} /\ EnsSetDates(w[1], w[2])
    \/ Determ
    \/ \E bad \in SUBSET Members : RunEns(bad)
    \/ \E i \in BOOLEAN : SaveEnsIndex(i)

SpecIndex == InitTagSpec /\ [][NextIndex]_vars

\* C30: the drought index of the member whose rows carry ensemble index k is
\* computed from rows that carry k or 0 and from no other row.
C30_IndexFromOwnRows ==
    (ph = "saved" /\ SaveReturned) =>
        \A e \in Members : dread[e] \subseteq {models[e].wrap, 0}

====
